---- MODULE Spec2Model ----
(***************************************************************************)
(* bym-alert: the monitor cycle of monitor.py (load_rules, fetch, quote    *)
(* selection, rule matching, gatekeeper, delivery, persistence) and the    *)
(* state file it shares with bot_commands.py.                              *)
(*                                                                         *)
(* Units.  The program computes with floats; the model computes with exact *)
(* scaled integers:                                                        *)
(*   rates and thresholds   hundredths of a percentage point (55.05 = 5505)*)
(*   cost_rate              1/10000 of the notional       (0.0018 = 18)    *)
(*   time                   seconds since the epoch                        *)
(*   money                  any unit (the formulas are linear in it)       *)
(*   net_profit             the numerator over Scale(base_days)            *)
(***************************************************************************)
EXTENDS Integers, Sequences, FiniteSets, TLC

VARIABLES
  disk,          \* state_actions.json: key -> bare number or entry dict
  clock,         \* time.time()
  nticks,        \* number of clock advances so far (bounds the clock)
  pc,            \* position of the monitor process in main()
  cfg,           \* (cost_rate, base_days, capital_rules) returned by load_rules
  data,          \* value returned by fetch_cauciones
  best_by_days,  \* main: best_by_days
  state,         \* main: state (in-memory copy of the state file)
  pending,       \* rest of sorted(best_by_days.items()) still to iterate
  day_sections,  \* main: day_sections
  changed,       \* main: changed
  triggered_any, \* main: triggered_any
  best_pick,     \* main: best_pick
  io,            \* I/O calls performed by the current cycle
  err,           \* exception that ended the current cycle ("none" if none)
  decisions,     \* calls of should_notify in the current cycle, in order
  matched,       \* (maturity, rule index) pairs that produced a line this cycle
  sent,          \* message delivered by the current cycle
  disk0,         \* contents of the state file when the current cycle started
  lastSent,      \* history: key -> (time, rate) of its last delivered notification
  lastSeen,      \* history: key -> rate last shown to the gatekeeper
  bpc,           \* position of the bot_commands process in main()
  bstate,        \* bot_commands.main: state
  bupdates,      \* bot_commands.main: updates not yet iterated
  bchanged,      \* bot_commands.main: changed
  sel_in,        \* input of a stand-alone quote selection
  sel_out,       \* its result
  call_in,       \* arguments of a stand-alone evaluation or calculation
  call_out,      \* its result
  inbox,         \* Telegram server: the updates received so far, by update_id
  handled        \* history: update_id -> number of calls of handle_command

monLocals == <<pc, cfg, data, best_by_days, state, pending, day_sections, changed,
               triggered_any, best_pick, io, err, decisions, matched, sent, disk0>>
histVars == <<lastSent, lastSeen>>
botVars == <<bpc, bstate, bupdates, bchanged>>
selVars == <<sel_in, sel_out>>
auxVars == <<call_in, call_out, inbox, handled>>

vars == <<disk, clock, nticks, monLocals, histVars, botVars, selVars, auxVars>>

----------------------------------------------------------------------------
(* Program constants *)

COOLDOWN_MINUTES == 15
MIN_IMPROVEMENT == 10
DayMin == 1
DayMax == 30
DefaultBaseDays == 365

(* Bounds of the model *)

MaxTicks == 2
MaxRows == 2
Epoch == 1000

----------------------------------------------------------------------------
(* Python values *)

None == [none |-> TRUE]
EmptyDict == [x \in {} |-> 0]

DictGet(d, f, dflt) == IF f \in DOMAIN d THEN d[f] ELSE dflt

Num(v) == [t |-> "num", v |-> v]
Str == [t |-> "str", v |-> 0]
Null == [t |-> "null", v |-> 0]

Put(f, k, v) == [x \in DOMAIN f \cup {k} |-> IF x = k THEN v ELSE f[x]]

Min(S) == CHOOSE x \in S : \A y \in S : x <= y

Key(days) == "ARS_" \o ToString(days)

\* format_date_ars: "%Y-%m-%d" -> "%d/%m/%Y", else the input or "?"
format_date_ars(maturity_date) ==
  CASE maturity_date = "2026-11-10" -> "10/11/2026"
    [] maturity_date = "2026-12-03" -> "03/12/2026"
    [] maturity_date = "" -> "?"
    [] OTHER -> maturity_date

----------------------------------------------------------------------------
(* load_rules *)

\* mutant: a rule without the enabled field counts as enabled
RECURSIVE NormalizeRulesDefaultOn(_, _, _)
NormalizeRulesDefaultOn(capital_rules, i, normalized) ==
  IF i > Len(capital_rules) THEN [err |-> "none", rules |-> normalized]
  ELSE LET r == capital_rules[i] IN
    IF ~DictGet(r, "enabled", TRUE)
    THEN NormalizeRulesDefaultOn(capital_rules, i + 1, normalized)
    ELSE IF "capital_min" \notin DOMAIN r \/ "capital_max" \notin DOMAIN r
    THEN [err |-> "KeyError", rules |-> normalized]
    ELSE NormalizeRulesDefaultOn(capital_rules, i + 1, Append(normalized,
           [capital_min |-> r.capital_min,
            capital_max |-> r.capital_max,
            day_min |-> DictGet(r, "day_min", 1),
            day_max |-> DictGet(r, "day_max", 30),
            min_net_profit |-> DictGet(r, "min_net_profit", 0),
            thresholds |-> DictGet(r, "thresholds", EmptyDict)]))

RECURSIVE NormalizeRules(_, _, _)
NormalizeRules(capital_rules, i, normalized) ==
  IF i > Len(capital_rules) THEN [err |-> "none", rules |-> normalized]
  ELSE LET r == capital_rules[i] IN
    IF ~DictGet(r, "enabled", FALSE)
    THEN NormalizeRules(capital_rules, i + 1, normalized)
    ELSE IF "capital_min" \notin DOMAIN r \/ "capital_max" \notin DOMAIN r
    THEN [err |-> "KeyError", rules |-> normalized]
    ELSE NormalizeRules(capital_rules, i + 1, Append(normalized,
           [capital_min |-> r.capital_min,
            capital_max |-> r.capital_max,
            day_min |-> DictGet(r, "day_min", 1),
            day_max |-> DictGet(r, "day_max", 30),
            min_net_profit |-> DictGet(r, "min_net_profit", 0),
            thresholds |-> DictGet(r, "thresholds", EmptyDict)]))

load_rules(file) ==
  IF ~file.exists
  THEN [err |-> "FileNotFoundError", cost_rate |-> 0, base_days |-> 0, rules |-> <<>>]
  ELSE IF ~file.parses
  THEN [err |-> "JSONDecodeError", cost_rate |-> 0, base_days |-> 0, rules |-> <<>>]
  ELSE LET doc == file.doc
           n == NormalizeRules(DictGet(doc, "capital_rules", <<>>), 1, <<>>)
       IN [err |-> n.err,
           cost_rate |-> DictGet(doc, "cost_rate", 0),
           base_days |-> DictGet(doc, "base_days", DefaultBaseDays),
           rules |-> n.rules]

----------------------------------------------------------------------------
(* Quote selection: monitor.main lines 163-176, the same loop as           *)
(* bot_commands.fetch_cauciones_ars_best_by_days                           *)

\* x.get(f): None when the field is missing or null
IsNone(x, f) == f \notin DOMAIN x \/ x[f].t = "null"

\* float(x.get("settlementPrice", 0.0))
PriceErr(x) ==
  IF "settlementPrice" \notin DOMAIN x THEN "none"
  ELSE CASE x.settlementPrice.t = "num" -> "none"
         [] x.settlementPrice.t = "str" -> "ValueError"
         [] x.settlementPrice.t = "null" -> "TypeError"

Price(x) == IF "settlementPrice" \in DOMAIN x THEN x.settlementPrice.v ELSE 0

\* [x for x in data if x.get("denominationCcy") == "ARS"]
RECURSIVE FilterARS(_, _)
FilterARS(rows, i) ==
  IF i > Len(rows) THEN <<>>
  ELSE IF DictGet(rows[i], "denominationCcy", "") = "ARS"
       THEN <<rows[i]>> \o FilterARS(rows, i + 1)
       ELSE FilterARS(rows, i + 1)

ArsOf(d) ==
  CASE d.shape = "list" -> [err |-> "none", ars |-> FilterARS(d.rows, 1)]
    [] d.shape \in {"empty_dict", "empty_str"} -> [err |-> "none", ars |-> <<>>]
    [] d.shape \in {"dict", "str"} -> [err |-> "AttributeError", ars |-> <<>>]
    [] d.shape \in {"null", "number"} -> [err |-> "TypeError", ars |-> <<>>]

\* mutant: a later row with an equal rate replaces the kept one
RECURSIVE SelectLoopLast(_, _, _, _, _)
SelectLoopLast(ars, i, day_min, day_max, best) ==
  IF i > Len(ars) THEN [err |-> "none", best |-> best]
  ELSE LET x == ars[i] IN
    IF IsNone(x, "daysToMaturity")
    THEN SelectLoopLast(ars, i + 1, day_min, day_max, best)
    ELSE IF x.daysToMaturity.t = "str"
    THEN [err |-> "ValueError", best |-> best]
    ELSE LET d == x.daysToMaturity.v IN
      IF d < day_min \/ d > day_max
      THEN SelectLoopLast(ars, i + 1, day_min, day_max, best)
      ELSE IF PriceErr(x) # "none"
      THEN [err |-> PriceErr(x), best |-> best]
      ELSE IF d \notin DOMAIN best \/ Price(x) >= Price(best[d])
      THEN SelectLoopLast(ars, i + 1, day_min, day_max,
             [k \in DOMAIN best \cup {d} |-> IF k = d THEN x ELSE best[k]])
      ELSE SelectLoopLast(ars, i + 1, day_min, day_max, best)

RECURSIVE SelectLoop(_, _, _, _, _)
SelectLoop(ars, i, day_min, day_max, best) ==
  IF i > Len(ars) THEN [err |-> "none", best |-> best]
  ELSE LET x == ars[i] IN
    IF IsNone(x, "daysToMaturity")
    THEN SelectLoop(ars, i + 1, day_min, day_max, best)
    ELSE IF x.daysToMaturity.t = "str"
    THEN [err |-> "ValueError", best |-> best]
    ELSE LET d == x.daysToMaturity.v IN
      IF d < day_min \/ d > day_max
      THEN SelectLoop(ars, i + 1, day_min, day_max, best)
      ELSE IF PriceErr(x) # "none"
      THEN [err |-> PriceErr(x), best |-> best]
      ELSE IF d \notin DOMAIN best \/ Price(x) > Price(best[d])
      THEN SelectLoop(ars, i + 1, day_min, day_max,
             [k \in DOMAIN best \cup {d} |-> IF k = d THEN x ELSE best[k]])
      ELSE SelectLoop(ars, i + 1, day_min, day_max, best)

fetch_cauciones_ars_best_by_days(d, day_min, day_max) ==
  LET a == ArsOf(d) IN
  IF a.err # "none" THEN [err |-> a.err, best |-> EmptyDict]
  ELSE SelectLoop(a.ars, 1, day_min, day_max, EmptyDict)

----------------------------------------------------------------------------
(* Gatekeeper *)

IsNumber(entry) == "num" \in DOMAIN entry

\* mutant: the legacy bare number read as the timestamp
LastTsLegacyAsTime(entry) ==
  IF IsNumber(entry) THEN entry.num ELSE DictGet(entry, "last_sent_ts", 0)

LastTs(entry) == IF IsNumber(entry) THEN 0 ELSE DictGet(entry, "last_sent_ts", 0)
LastRate(entry) == IF IsNumber(entry) THEN entry.num ELSE DictGet(entry, "last_sent_rate", 0)

\* mutant: the cooldown boundary excluded
should_notify_strict(st, key, rate, now) ==
  LET entry == DictGet(st, key, EmptyDict)
      cooldown_ok == (now - LastTs(entry)) > (COOLDOWN_MINUTES * 60)
      improved_enough == rate >= (LastRate(entry) + MIN_IMPROVEMENT)
  IN cooldown_ok \/ improved_enough

should_notify(st, key, rate, now) ==
  LET entry == DictGet(st, key, EmptyDict)
      cooldown_ok == (now - LastTs(entry)) >= (COOLDOWN_MINUTES * 60)
      improved_enough == rate >= (LastRate(entry) + MIN_IMPROVEMENT)
  IN cooldown_ok \/ improved_enough

\* mutant: the state is replaced by the new entry alone
update_state_fresh(st, key, rate, now) ==
  [k \in {key} |-> [last_sent_ts |-> now, last_sent_rate |-> rate]]

update_state(st, key, rate, now) ==
  [k \in DOMAIN st \cup {key} |->
     IF k = key THEN [last_sent_ts |-> now, last_sent_rate |-> rate] ELSE st[k]]

----------------------------------------------------------------------------
(* Profitability *)

\* net_profit and min_net_profit are compared over the common denominator
Scale(base_days) == 10000 * base_days

\* net_profit(...) * Scale(base_days)
net_profit(amount, days, annual_rate_pct, base_days, cost_rate) ==
  amount * (annual_rate_pct * days - cost_rate * base_days)

\* mutant: the cost is left out of the per-peso rate
required_capital_gross(min_profit, days, annual_rate_pct, base_days, cost_rate) ==
  LET per_peso == annual_rate_pct * days IN
  IF per_peso <= 0 THEN None
  ELSE [n |-> min_profit * Scale(base_days), d |-> per_peso]

\* required_capital_for_profit as the fraction n/d, None when per_peso <= 0
required_capital_for_profit(min_profit, days, annual_rate_pct, base_days, cost_rate) ==
  LET per_peso == annual_rate_pct * days - cost_rate * base_days IN
  IF per_peso <= 0 THEN None
  ELSE [n |-> min_profit * Scale(base_days), d |-> per_peso]

Frac(x) == [n |-> x, d |-> 1]
FracLE(a, b) == a.n * b.d <= b.n * a.d
\* Python min and max return the first argument on a tie
FracMin(a, b) == IF FracLE(a, b) THEN a ELSE b
FracMax(a, b) == IF FracLE(b, a) THEN a ELSE b

----------------------------------------------------------------------------
(* Rule matching: the inner loop of main, lines 193-246.  acc carries      *)
(* matching_rules_lines and best_pick; a line remembers the index of its   *)
(* rule in capital_rules.                                                  *)

\* mutant: the required capital is shown without clamping it to the range
RuleLineUnclamped(i, rule, days, rate, base_days, cost_rate) ==
  LET cap_min == rule.capital_min
      cap_max == rule.capital_max
      min_profit == rule.min_net_profit
      net_min == net_profit(cap_min, days, rate, base_days, cost_rate)
      net_max == net_profit(cap_max, days, rate, base_days, cost_rate)
      req == required_capital_for_profit(min_profit, days, rate, base_days, cost_rate)
      desde == IF min_profit > 0 /\ req # None THEN req ELSE None
      extra == IF min_profit > 0
               THEN IF net_min >= min_profit * Scale(base_days)
                    THEN "ok"
                    ELSE IF desde # None /\ desde.n # 0 THEN "desde" ELSE "N/A"
               ELSE ""
  IN [rule |-> i, cap_min |-> cap_min, cap_max |-> cap_max,
      net_min |-> net_min, net_max |-> net_max, extra |-> extra, desde |-> desde]

RuleLine(i, rule, days, rate, base_days, cost_rate) ==
  LET cap_min == rule.capital_min
      cap_max == rule.capital_max
      min_profit == rule.min_net_profit
      net_min == net_profit(cap_min, days, rate, base_days, cost_rate)
      net_max == net_profit(cap_max, days, rate, base_days, cost_rate)
      req == required_capital_for_profit(min_profit, days, rate, base_days, cost_rate)
      desde == IF min_profit > 0 /\ req # None
               THEN FracMax(Frac(cap_min), FracMin(Frac(cap_max), req))
               ELSE None
      extra == IF min_profit > 0
               THEN IF net_min >= min_profit * Scale(base_days)
                    THEN "ok"
                    ELSE IF desde # None /\ desde.n # 0 THEN "desde" ELSE "N/A"
               ELSE ""
  IN [rule |-> i, cap_min |-> cap_min, cap_max |-> cap_max,
      net_min |-> net_min, net_max |-> net_max, extra |-> extra, desde |-> desde]

Pick(rule, days, rate, vto, base_days, cost_rate) ==
  [days |-> days, rate |-> rate, vto |-> vto, cap |-> rule.capital_max,
   net |-> net_profit(rule.capital_max, days, rate, base_days, cost_rate),
   cap_range |-> <<rule.capital_min, rule.capital_max>>,
   min_profit |-> rule.min_net_profit,
   threshold |-> rule.thresholds[days]]

\* the gates of lines 194-202
PassesThreshold(rule, days, rate) ==
  /\ ~(days < rule.day_min \/ days > rule.day_max)
  /\ days \in DOMAIN rule.thresholds
  /\ ~(rate < rule.thresholds[days])

\* mutant: the net profit taken at capital_min
ClearsMinProfitAtFloor(rule, days, rate, base_days, cost_rate) ==
  ~(net_profit(rule.capital_min, days, rate, base_days, cost_rate)
      < rule.min_net_profit * Scale(base_days))

\* the gate of lines 209-213
ClearsMinProfit(rule, days, rate, base_days, cost_rate) ==
  ~(net_profit(rule.capital_max, days, rate, base_days, cost_rate)
      < rule.min_net_profit * Scale(base_days))

\* mutant: the best pick is updated before the profit gate
RECURSIVE RuleLoopEarlyPick(_, _, _, _, _, _, _, _)
RuleLoopEarlyPick(rules, i, days, rate, vto, base_days, cost_rate, acc) ==
  IF i > Len(rules) THEN acc
  ELSE LET rule == rules[i] IN
    IF ~PassesThreshold(rule, days, rate)
    THEN RuleLoopEarlyPick(rules, i + 1, days, rate, vto, base_days, cost_rate, acc)
    ELSE IF base_days = 0
    THEN [acc EXCEPT !.err = "ZeroDivisionError"]
    ELSE LET net_max == net_profit(rule.capital_max, days, rate, base_days, cost_rate)
             bp == IF acc.best_pick = None \/ net_max > acc.best_pick.net
                   THEN Pick(rule, days, rate, vto, base_days, cost_rate)
                   ELSE acc.best_pick
         IN IF ~ClearsMinProfit(rule, days, rate, base_days, cost_rate)
            THEN RuleLoopEarlyPick(rules, i + 1, days, rate, vto, base_days, cost_rate,
                   [acc EXCEPT !.best_pick = bp])
            ELSE RuleLoopEarlyPick(rules, i + 1, days, rate, vto, base_days, cost_rate,
                   [acc EXCEPT !.lines = Append(@, RuleLine(i, rule, days, rate, base_days, cost_rate)),
                               !.best_pick = bp])

\* mutant: a later result with an equal net replaces the best pick
RECURSIVE RuleLoopLastTie(_, _, _, _, _, _, _, _)
RuleLoopLastTie(rules, i, days, rate, vto, base_days, cost_rate, acc) ==
  IF i > Len(rules) THEN acc
  ELSE LET rule == rules[i] IN
    IF ~PassesThreshold(rule, days, rate)
    THEN RuleLoopLastTie(rules, i + 1, days, rate, vto, base_days, cost_rate, acc)
    ELSE IF base_days = 0
    THEN [acc EXCEPT !.err = "ZeroDivisionError"]
    ELSE IF ~ClearsMinProfit(rule, days, rate, base_days, cost_rate)
    THEN RuleLoopLastTie(rules, i + 1, days, rate, vto, base_days, cost_rate, acc)
    ELSE LET net_max == net_profit(rule.capital_max, days, rate, base_days, cost_rate)
             bp == IF acc.best_pick = None \/ net_max >= acc.best_pick.net
                   THEN Pick(rule, days, rate, vto, base_days, cost_rate)
                   ELSE acc.best_pick
         IN RuleLoopLastTie(rules, i + 1, days, rate, vto, base_days, cost_rate,
              [acc EXCEPT !.lines = Append(@, RuleLine(i, rule, days, rate, base_days, cost_rate)),
                          !.best_pick = bp])

\* mutant: the loop ends at the first rule that fails the profit gate
RECURSIVE RuleLoopBreak(_, _, _, _, _, _, _, _)
RuleLoopBreak(rules, i, days, rate, vto, base_days, cost_rate, acc) ==
  IF i > Len(rules) THEN acc
  ELSE LET rule == rules[i] IN
    IF ~PassesThreshold(rule, days, rate)
    THEN RuleLoopBreak(rules, i + 1, days, rate, vto, base_days, cost_rate, acc)
    ELSE IF base_days = 0
    THEN [acc EXCEPT !.err = "ZeroDivisionError"]
    ELSE IF ~ClearsMinProfit(rule, days, rate, base_days, cost_rate)
    THEN acc
    ELSE LET net_max == net_profit(rule.capital_max, days, rate, base_days, cost_rate)
             bp == IF acc.best_pick = None \/ net_max > acc.best_pick.net
                   THEN Pick(rule, days, rate, vto, base_days, cost_rate)
                   ELSE acc.best_pick
         IN RuleLoopBreak(rules, i + 1, days, rate, vto, base_days, cost_rate,
              [acc EXCEPT !.lines = Append(@, RuleLine(i, rule, days, rate, base_days, cost_rate)),
                          !.best_pick = bp])

RECURSIVE RuleLoop(_, _, _, _, _, _, _, _)
RuleLoop(rules, i, days, rate, vto, base_days, cost_rate, acc) ==
  IF i > Len(rules) THEN acc
  ELSE LET rule == rules[i] IN
    IF ~PassesThreshold(rule, days, rate)
    THEN RuleLoop(rules, i + 1, days, rate, vto, base_days, cost_rate, acc)
    ELSE IF base_days = 0
    THEN [acc EXCEPT !.err = "ZeroDivisionError"]
    ELSE IF ~ClearsMinProfit(rule, days, rate, base_days, cost_rate)
    THEN RuleLoop(rules, i + 1, days, rate, vto, base_days, cost_rate, acc)
    ELSE LET net_max == net_profit(rule.capital_max, days, rate, base_days, cost_rate)
             bp == IF acc.best_pick = None \/ net_max > acc.best_pick.net
                   THEN Pick(rule, days, rate, vto, base_days, cost_rate)
                   ELSE acc.best_pick
         IN RuleLoop(rules, i + 1, days, rate, vto, base_days, cost_rate,
              [acc EXCEPT !.lines = Append(@, RuleLine(i, rule, days, rate, base_days, cost_rate)),
                          !.best_pick = bp])

\* sorted(best_by_days.items()): the maturities in ascending order
RECURSIVE SortedDays(_)
SortedDays(S) ==
  IF S = {} THEN <<>> ELSE <<Min(S)>> \o SortedDays(S \ {Min(S)})

\* mutant: a suppressed observation replaces the stored rate
main_gate_observed(st, key, rate, now, notify) ==
  IF notify THEN update_state(st, key, rate, now)
  ELSE Put(st, key, [last_sent_ts |-> LastTs(DictGet(st, key, EmptyDict)),
                     last_sent_rate |-> rate])

\* mutant: a notification stamps every key of the state with the current time
main_gate_stamp_all(st, key, rate, now, notify) ==
  IF notify
  THEN [k \in DOMAIN st \cup {key} |->
          [last_sent_ts |-> now,
           last_sent_rate |-> IF k = key THEN rate ELSE LastRate(st[k])]]
  ELSE st

\* main lines 251-257: the state after the gatekeeper's decision
main_gate(st, key, rate, now, notify) ==
  IF notify THEN update_state(st, key, rate, now) ELSE st

----------------------------------------------------------------------------
(* The evaluation of one cycle as a function of what it reads: the rule    *)
(* file, the response, the state file and the time.  main lines 160-263    *)
(* with time.time() returning the same instant throughout.                 *)

\* the loop of line 187 over the maturities in days, in order
RECURSIVE EvalLoop(_, _, _, _, _)
EvalLoop(c, best, days, now, acc) ==
  IF days = <<>> \/ acc.err # "none" THEN acc
  ELSE LET d == Head(days)
           row == best[d]
           rate == Price(row)
           vto == format_date_ars(DictGet(row, "maturityDate", ""))
           res == RuleLoop(c.rules, 1, d, rate, vto, c.base_days, c.cost_rate,
                           [err |-> "none", lines |-> <<>>, best_pick |-> acc.best_pick])
           key == Key(d)
           notify == should_notify(acc.state, key, rate, now)
       IN IF res.err # "none" THEN [acc EXCEPT !.err = res.err]
          ELSE EvalLoop(c, best, Tail(days), now,
                 [acc EXCEPT
                    !.best_pick = res.best_pick,
                    !.matched = @ \cup { <<d, res.lines[j].rule>> : j \in DOMAIN res.lines },
                    !.consulted = IF res.lines = <<>> THEN @ ELSE @ \cup {d},
                    !.notified = IF res.lines # <<>> /\ notify THEN @ \cup {d} ELSE @,
                    !.state = IF res.lines = <<>> THEN @
                              ELSE main_gate(@, key, rate, now, notify)])

main_eval(file, response, st, now) ==
  LET c == load_rules(file)
      noRun == [err |-> "none", rules |-> <<>>, best_pick |-> None, matched |-> {},
                consulted |-> {}, notified |-> {}, state |-> st]
  IN IF c.err # "none" THEN [noRun EXCEPT !.err = c.err]
     ELSE LET sel == fetch_cauciones_ars_best_by_days(response, DayMin, DayMax) IN
          IF sel.err # "none" THEN [noRun EXCEPT !.err = sel.err, !.rules = c.rules]
          ELSE EvalLoop(c, sel.best, SortedDays(DOMAIN sel.best), now,
                        [noRun EXCEPT !.rules = c.rules])

----------------------------------------------------------------------------
(* Inputs: the rule files, the market responses, the initial state files   *)

Row(ccy, dtm, price, date) ==
  [denominationCcy |-> ccy, daysToMaturity |-> dtm,
   settlementPrice |-> price, maturityDate |-> date]

GoodRows ==
  { Row("ARS", Num(7), Num(5500), "2026-11-10"),
    Row("ARS", Num(7), Num(5505), "2026-11-10"),
    Row("ARS", Num(7), Num(5510), "2026-11-10"),
    Row("ARS", Num(30), Num(5500), "2026-12-03") }

RowPool ==
  { Row("ARS", Num(7), Num(5500), "2026-11-10"),
    Row("ARS", Num(7), Num(5510), "2026-11-10"),
    Row("ARS", Num(30), Num(5500), "2026-12-03"),
    Row("ARS", Null, Num(5500), ""),
    Row("ARS", Str, Num(5500), ""),
    Row("ARS", Num(7), Str, "2026-11-10") }

RowLists(pool) == UNION { [1..n -> pool] : n \in 0..MaxRows }

NonListShapes == {"empty_dict", "dict", "empty_str", "str", "null", "number"}

Responses ==
  { [shape |-> "list", rows |-> rows] : rows \in RowLists(RowPool) }
  \cup { [shape |-> s, rows |-> <<>>] : s \in NonListShapes }

RuleA ==
  [enabled |-> TRUE, capital_min |-> 100, capital_max |-> 1000,
   day_min |-> 1, day_max |-> 30, min_net_profit |-> 0,
   thresholds |-> (7 :> 5500 @@ 30 :> 5500)]
\* min_net_profit between the net at capital_min and the net at capital_max
RuleP ==
  [enabled |-> TRUE, capital_min |-> 100, capital_max |-> 1000,
   min_net_profit |-> 5, thresholds |-> (7 :> 5505)]
\* min_net_profit above the net at capital_max
RuleD ==
  [enabled |-> TRUE, capital_min |-> 100, capital_max |-> 1000,
   day_min |-> 1, day_max |-> 30, min_net_profit |-> 50,
   thresholds |-> (7 :> 5000 @@ 30 :> 5000)]
\* a threshold for a maturity outside the rule's day range
RuleN ==
  [enabled |-> TRUE, capital_min |-> 100, capital_max |-> 2000,
   day_min |-> 8, day_max |-> 30, min_net_profit |-> 0,
   thresholds |-> (7 :> 5000 @@ 30 :> 5510)]
RuleOff ==
  [enabled |-> FALSE, capital_min |-> 100, capital_max |-> 5000,
   day_min |-> 1, day_max |-> 30, min_net_profit |-> 0,
   thresholds |-> (7 :> 5000 @@ 30 :> 5000)]
RuleNoCap ==
  [enabled |-> TRUE, capital_max |-> 1000, thresholds |-> (7 :> 5000)]

Doc(cost_rate, base_days, capital_rules) ==
  [cost_rate |-> cost_rate, base_days |-> base_days, capital_rules |-> capital_rules]

File(doc) == [exists |-> TRUE, parses |-> TRUE, doc |-> doc]

RulesFiles ==
  { [exists |-> FALSE, parses |-> FALSE, doc |-> EmptyDict],
    [exists |-> TRUE, parses |-> FALSE, doc |-> EmptyDict],
    File(Doc(18, 365, <<RuleA, RuleNoCap>>)),
    File(Doc(18, 365, <<RuleA>>)),
    File(Doc(18, 365, <<RuleD, RuleOff, RuleP, RuleN>>)),
    File(Doc(18, 0, <<RuleA>>)) }

InitDisks == { EmptyDict, (Key(7) :> [num |-> 5505]) }

ClockSteps == {1, 899}

NoCfg == [err |-> "none", cost_rate |-> 0, base_days |-> 0, rules |-> <<>>]
NoData == [shape |-> "list", rows |-> <<>>]

----------------------------------------------------------------------------
(* Initial state *)

InitLocals ==
  /\ clock = Epoch
  /\ nticks = 0
  /\ pc = "idle"
  /\ cfg = NoCfg
  /\ data = NoData
  /\ best_by_days = EmptyDict
  /\ state = EmptyDict
  /\ pending = <<>>
  /\ day_sections = <<>>
  /\ changed = FALSE
  /\ triggered_any = FALSE
  /\ best_pick = None
  /\ io = {}
  /\ err = "none"
  /\ decisions = <<>>
  /\ matched = {}
  /\ sent = None
  /\ disk0 = disk
  /\ lastSent = EmptyDict
  /\ lastSeen = EmptyDict
  /\ bpc = "idle"
  /\ bstate = EmptyDict
  /\ bupdates = <<>>
  /\ bchanged = FALSE
  /\ sel_out = None
  /\ call_out = None
  /\ inbox = <<>>
  /\ handled = EmptyDict

Init ==
  /\ disk \in InitDisks
  /\ sel_in = [data |-> NoData, day_min |-> DayMin, day_max |-> DayMax]
  /\ call_in = None
  /\ InitLocals

----------------------------------------------------------------------------
(* The monitor process: one run of monitor.main per cycle *)

\* time passes; the clock is read only by should_notify and update_state
Tick ==
  /\ pc \in {"idle", "eval"}
  /\ nticks < MaxTicks
  /\ \E s \in ClockSteps : clock' = clock + s
  /\ nticks' = nticks + 1
  /\ UNCHANGED <<disk, monLocals, histVars, botVars, selVars, auxVars>>

\* mutant: the error of load_rules is swallowed and the cycle goes on
LoadRulesLenient(files) ==
  /\ pc = "idle"
  /\ \E file \in files :
       LET r == load_rules(file) IN
       /\ cfg' = r
       /\ err' = r.err
       /\ pc' = "fetch"
  /\ disk0' = disk
  /\ UNCHANGED <<disk, clock, nticks, data, best_by_days, state, pending,
                 day_sections, changed, triggered_any, best_pick, io, decisions,
                 matched, sent, histVars, botVars, selVars, auxVars>>

\* main line 160
LoadRules(files) ==
  /\ pc = "idle"
  /\ \E file \in files :
       LET r == load_rules(file) IN
       /\ cfg' = r
       /\ err' = r.err
       /\ pc' = IF r.err = "none" THEN "fetch" ELSE "aborted"
  /\ disk0' = disk
  /\ UNCHANGED <<disk, clock, nticks, data, best_by_days, state, pending,
                 day_sections, changed, triggered_any, best_pick, io, decisions,
                 matched, sent, histVars, botVars, selVars, auxVars>>

\* main line 162, the request succeeds
Fetch(responses) ==
  /\ pc = "fetch"
  /\ data' \in responses
  /\ io' = io \cup {"fetch_cauciones"}
  /\ pc' = "select"
  /\ UNCHANGED <<disk, clock, nticks, cfg, best_by_days, state, pending, day_sections,
                 changed, triggered_any, best_pick, err, decisions, matched, sent,
                 disk0, histVars, botVars, selVars, auxVars>>

\* main line 162, requests.post or raise_for_status raises
FetchFail ==
  /\ pc = "fetch"
  /\ io' = io \cup {"fetch_cauciones"}
  /\ err' = "HTTPError"
  /\ pc' = "aborted"
  /\ UNCHANGED <<disk, clock, nticks, cfg, data, best_by_days, state, pending,
                 day_sections, changed, triggered_any, best_pick, decisions, matched,
                 sent, disk0, histVars, botVars, selVars, auxVars>>

\* main lines 163-176
Select ==
  /\ pc = "select"
  /\ LET r == fetch_cauciones_ars_best_by_days(data, DayMin, DayMax) IN
       /\ best_by_days' = r.best
       /\ err' = r.err
       /\ pc' = IF r.err = "none" THEN "load_state" ELSE "aborted"
  /\ UNCHANGED <<disk, clock, nticks, cfg, data, state, pending, day_sections,
                 changed, triggered_any, best_pick, io, decisions, matched, sent,
                 disk0, histVars, botVars, selVars, auxVars>>

load_state(file) == file

\* main lines 178-187
LoadState ==
  /\ pc = "load_state"
  /\ state' = load_state(disk)
  /\ io' = io \cup {"load_state"}
  /\ pending' = SortedDays(DOMAIN best_by_days)
  /\ pc' = "eval"
  /\ UNCHANGED <<disk, clock, nticks, cfg, data, best_by_days, day_sections,
                 changed, triggered_any, best_pick, err, decisions, matched, sent,
                 disk0, histVars, botVars, selVars, auxVars>>

\* one iteration of the loop of line 187
EvalDay ==
  /\ pc = "eval"
  /\ pending # <<>>
  /\ LET days == Head(pending)
         row == best_by_days[days]
         rate == Price(row)
         vto == format_date_ars(DictGet(row, "maturityDate", ""))
         res == RuleLoop(cfg.rules, 1, days, rate, vto, cfg.base_days, cfg.cost_rate,
                         [err |-> "none", lines |-> <<>>, best_pick |-> best_pick])
         key == Key(days)
         now == clock
         notify == should_notify(state, key, rate, now)
         call(ts) == [days |-> days, rate |-> rate, now |-> now,
                      entry |-> DictGet(state, key, EmptyDict),
                      notify |-> notify, ts |-> ts,
                      last |-> DictGet(lastSent, key, None),
                      prev |-> DictGet(lastSeen, key, 0)]
     IN IF res.err # "none"
        THEN /\ err' = res.err
             /\ pc' = "aborted"
             /\ UNCHANGED <<clock, nticks, state, pending, day_sections, changed,
                            triggered_any, best_pick, decisions, matched>>
        ELSE /\ best_pick' = res.best_pick
             /\ pending' = Tail(pending)
             /\ matched' = matched \cup
                  { <<days, res.lines[j].rule>> : j \in DOMAIN res.lines }
             /\ UNCHANGED <<pc, err>>
             /\ IF res.lines = <<>>
                THEN UNCHANGED <<clock, nticks, state, day_sections, changed,
                                 triggered_any, decisions>>
                ELSE IF ~notify
                        THEN /\ decisions' = Append(decisions, call(0))
                             /\ state' = main_gate(state, key, rate, now, FALSE)
                             /\ UNCHANGED <<clock, nticks, day_sections, changed,
                                            triggered_any>>
                        ELSE \E dt \in IF nticks < MaxTicks THEN {0, 1} ELSE {0} :
                             /\ clock' = now + dt
                             /\ nticks' = nticks + dt
                             /\ decisions' = Append(decisions, call(now + dt))
                             /\ triggered_any' = TRUE
                             /\ state' = main_gate(state, key, rate, now + dt, TRUE)
                             /\ changed' = TRUE
                             /\ day_sections' = Append(day_sections,
                                  [days |-> days, vto |-> vto, rate |-> rate,
                                   lines |-> res.lines])
  /\ UNCHANGED <<disk, cfg, data, best_by_days, io, sent, disk0, lastSent,
                 botVars, selVars, auxVars>>

\* the entries of the notifications that a delivered message carries
RECURSIVE Delivered(_, _, _)
Delivered(calls, i, acc) ==
  IF i > Len(calls) THEN acc
  ELSE IF calls[i].notify
       THEN Delivered(calls, i + 1,
              Put(acc, Key(calls[i].days),
                  [last_sent_ts |-> calls[i].ts, last_sent_rate |-> calls[i].rate]))
       ELSE Delivered(calls, i + 1, acc)

\* main lines 265-282, the delivery succeeds
Send ==
  /\ pc = "eval"
  /\ pending = <<>>
  /\ triggered_any
  /\ sent' = [sections |-> day_sections, best |-> best_pick]
  /\ io' = io \cup {"send_telegram"}
  /\ lastSent' = Delivered(decisions, 1, lastSent)
  /\ pc' = "save"
  /\ UNCHANGED <<disk, clock, nticks, cfg, data, best_by_days, state, pending,
                 day_sections, changed, triggered_any, best_pick, err, decisions,
                 matched, disk0, lastSeen, botVars, selVars, auxVars>>

\* mutant: the exception of send_telegram is swallowed
SendFailSwallowed ==
  /\ pc = "eval"
  /\ pending = <<>>
  /\ triggered_any
  /\ io' = io \cup {"send_telegram"}
  /\ err' = "DeliveryError"
  /\ pc' = "save"
  /\ UNCHANGED <<disk, clock, nticks, cfg, data, best_by_days, state, pending,
                 day_sections, changed, triggered_any, best_pick, decisions, matched,
                 sent, disk0, histVars, botVars, selVars, auxVars>>

\* main line 282, send_telegram raises
SendFail ==
  /\ pc = "eval"
  /\ pending = <<>>
  /\ triggered_any
  /\ io' = io \cup {"send_telegram"}
  /\ err' = "DeliveryError"
  /\ pc' = "aborted"
  /\ UNCHANGED <<disk, clock, nticks, cfg, data, best_by_days, state, pending,
                 day_sections, changed, triggered_any, best_pick, decisions, matched,
                 sent, disk0, histVars, botVars, selVars, auxVars>>

\* main line 265, nothing triggered
NoSend ==
  /\ pc = "eval"
  /\ pending = <<>>
  /\ ~triggered_any
  /\ pc' = "save"
  /\ UNCHANGED <<disk, clock, nticks, cfg, data, best_by_days, state, pending,
                 day_sections, changed, triggered_any, best_pick, io, err,
                 decisions, matched, sent, disk0, histVars, botVars, selVars, auxVars>>

save_state(st) == st

\* main lines 284-285
Save ==
  /\ pc = "save"
  /\ IF changed
     THEN /\ disk' = save_state(state)
          /\ io' = io \cup {"save_state"}
     ELSE UNCHANGED <<disk, io>>
  /\ pc' = "done"
  /\ UNCHANGED <<clock, nticks, cfg, data, best_by_days, state, pending, day_sections,
                 changed, triggered_any, best_pick, err, decisions, matched, sent,
                 disk0, histVars, botVars, selVars, auxVars>>

\* the process exits; the next invocation starts from scratch
Exit ==
  /\ pc \in {"done", "aborted"}
  /\ pc' = "idle"
  /\ cfg' = NoCfg
  /\ data' = NoData
  /\ best_by_days' = EmptyDict
  /\ state' = EmptyDict
  /\ pending' = <<>>
  /\ day_sections' = <<>>
  /\ changed' = FALSE
  /\ triggered_any' = FALSE
  /\ best_pick' = None
  /\ io' = {}
  /\ err' = "none"
  /\ decisions' = <<>>
  /\ matched' = {}
  /\ sent' = None
  /\ disk0' = disk
  /\ UNCHANGED <<disk, clock, nticks, histVars, botVars, selVars, auxVars>>

----------------------------------------------------------------------------
(* The bot_commands process: one run of bot_commands.main.  It shares the  *)
(* state file with the monitor and keeps "_telegram_offset" in it.         *)

MaxUpdateId == 2

BotTexts == {"/help", "/set 7 abc", ""}

UpdatesWithId(id) ==
  { [update_id |-> id, chat |-> c, text |-> t] : c \in {"mine", "other"}, t \in BotTexts }

\* getUpdates(offset): the updates with update_id >= offset, in order
Batches(offset) ==
  LET first == IF offset = 0 THEN 1 ELSE offset
      all == UNION { UpdatesWithId(i) : i \in first..MaxUpdateId }
  IN UNION { { b \in [1..n -> all] : \A j \in 1..n : b[j].update_id = first + j - 1 } :
             n \in 0..(IF first > MaxUpdateId THEN 0 ELSE MaxUpdateId - first + 1) }

load_json(file) == file
save_json(obj) == obj

Offset(st) == IF "_telegram_offset" \in DOMAIN st THEN st["_telegram_offset"].num ELSE 0

\* handle_command: "/set 7 abc" raises at float(parts[2]); a command that
\* answers raises when send_message does
handle_command_raises(text, delivery_ok) ==
  CASE text = "/set 7 abc" -> TRUE
    [] OTHER -> ~delivery_ok

\* bot_commands.main lines 257-266, getUpdates succeeds
BotStart ==
  /\ bpc = "idle"
  /\ bstate' = load_json(disk)
  /\ bupdates' \in Batches(Offset(disk))
  /\ bchanged' = FALSE
  /\ bpc' = "loop"
  /\ UNCHANGED <<disk, clock, nticks, monLocals, histVars, selVars, auxVars>>

\* bot_commands.main lines 262-263, getUpdates raises
BotGetUpdatesFail ==
  /\ bpc = "idle"
  /\ bstate' = load_json(disk)
  /\ bpc' = "aborted"
  /\ UNCHANGED <<disk, clock, nticks, monLocals, histVars, selVars, auxVars, bupdates, bchanged>>

\* one iteration of the loop of bot_commands.main line 268
BotStep ==
  /\ bpc = "loop"
  /\ bupdates # <<>>
  /\ LET upd == Head(bupdates)
         advance == /\ bstate' = Put(bstate, "_telegram_offset", [num |-> upd.update_id + 1])
                    /\ bchanged' = TRUE
                    /\ bupdates' = Tail(bupdates)
                    /\ UNCHANGED bpc
     IN IF upd.chat # "mine"
        THEN advance
        ELSE \E delivery_ok \in BOOLEAN :
               IF upd.text # "" /\ handle_command_raises(upd.text, delivery_ok)
               THEN /\ bpc' = "aborted"
                    /\ UNCHANGED <<bstate, bchanged, bupdates>>
               ELSE advance
  /\ UNCHANGED <<disk, clock, nticks, monLocals, histVars, selVars, call_in, call_out,
                 inbox>>

\* mutant: only the offset is written, into the file as it is now
BotSaveOffsetOnly ==
  /\ bpc = "loop"
  /\ bupdates = <<>>
  /\ IF bchanged
     THEN disk' = Put(disk, "_telegram_offset", bstate["_telegram_offset"])
     ELSE UNCHANGED disk
  /\ bpc' = "done"
  /\ UNCHANGED <<clock, nticks, monLocals, histVars, selVars, auxVars, bstate, bupdates, bchanged>>

\* bot_commands.main lines 289-290
BotSave ==
  /\ bpc = "loop"
  /\ bupdates = <<>>
  /\ IF bchanged THEN disk' = save_json(bstate) ELSE UNCHANGED disk
  /\ bpc' = "done"
  /\ UNCHANGED <<clock, nticks, monLocals, histVars, selVars, auxVars, bstate, bupdates, bchanged>>

BotExit ==
  /\ bpc \in {"done", "aborted"}
  /\ bpc' = "idle"
  /\ bstate' = EmptyDict
  /\ bupdates' = <<>>
  /\ bchanged' = FALSE
  /\ UNCHANGED <<disk, clock, nticks, monLocals, histVars, selVars, auxVars>>

----------------------------------------------------------------------------
(* Specifications *)

(* The monitor alone, on every response and rule file *)

MonitorLoadRules == LoadRules(RulesFiles)
MonitorFetch == Fetch(Responses)
MonitorEvalDay == EvalDay /\ UNCHANGED lastSeen

Next ==
  \/ Tick
  \/ MonitorLoadRules
  \/ MonitorFetch
  \/ FetchFail
  \/ Select
  \/ LoadState
  \/ MonitorEvalDay
  \/ Send
  \/ SendFail
  \/ NoSend
  \/ Save
  \/ Exit

Spec == Init /\ [][Next]_vars

(* Monitor cycles one after another on well-formed rows of one maturity;   *)
(* records the rate the gatekeeper last saw for each key.                  *)

SeqRulesFiles == { File(Doc(18, 365, <<RuleA>>)) }
SeqRows == { r \in GoodRows : r.daysToMaturity.v = 7 }
SeqResponses == { [shape |-> "list", rows |-> rows] : rows \in RowLists(SeqRows) }

SeqLoadRules == LoadRules(SeqRulesFiles)
SeqFetch == Fetch(SeqResponses)
SeqEvalDay ==
  /\ EvalDay
  /\ lastSeen' = IF decisions' # decisions
                 THEN LET e == decisions'[Len(decisions')]
                      IN Put(lastSeen, Key(e.days), e.rate)
                 ELSE lastSeen

SeqNext ==
  \/ Tick
  \/ SeqLoadRules
  \/ SeqFetch
  \/ FetchFail
  \/ Select
  \/ LoadState
  \/ SeqEvalDay
  \/ Send
  \/ SendFail
  \/ NoSend
  \/ Save
  \/ Exit

SeqSpec == Init /\ [][SeqNext]_vars

(* Monitor cycles and bot_commands runs on the same state file, one run at *)
(* a time.                                                                 *)

SharedRows == { r \in GoodRows : r.settlementPrice.v = 5500 }
SharedResponses == { [shape |-> "list", rows |-> rows] : rows \in RowLists(SharedRows) }

SharedLoadRules == bpc = "idle" /\ LoadRules(SeqRulesFiles)
SharedFetch == Fetch(SharedResponses)
SharedBotStart == pc = "idle" /\ BotStart
SharedBotGetUpdatesFail == pc = "idle" /\ BotGetUpdatesFail
SharedBotStep == BotStep /\ UNCHANGED handled

SharedNext ==
  \/ Tick
  \/ SharedLoadRules
  \/ SharedFetch
  \/ FetchFail
  \/ Select
  \/ LoadState
  \/ MonitorEvalDay
  \/ Send
  \/ SendFail
  \/ NoSend
  \/ Save
  \/ Exit
  \/ SharedBotStart
  \/ SharedBotGetUpdatesFail
  \/ SharedBotStep
  \/ BotSave
  \/ BotExit

SharedSpec == Init /\ [][SharedNext]_vars

(* Quote selection alone, on bounded lists of rows and day ranges *)

SelPool ==
  { Row("ARS", Num(7), Num(5500), "2026-11-10"),
    Row("ARS", Num(7), Num(5500), "2026-11-11"),
    Row("ARS", Num(7), Num(5510), "2026-11-10"),
    Row("ARS", Num(30), Num(5500), "2026-12-03"),
    Row("ARS", Num(31), Num(5500), ""),
    Row("ARS", Num(0), Num(5500), ""),
    Row("USD", Num(7), Num(9000), "2026-11-10"),
    Row("ARS", Null, Num(5500), ""),
    [denominationCcy |-> "ARS", settlementPrice |-> Num(5500), maturityDate |-> ""],
    [denominationCcy |-> "ARS", daysToMaturity |-> Num(7), maturityDate |-> "2026-11-12"],
    Row("ARS", Str, Num(5500), ""),
    Row("ARS", Num(7), Str, "2026-11-10") }

SelRanges == { <<DayMin, DayMax>>, <<8, 30>> }

SelInputs ==
  { [data |-> [shape |-> "list", rows |-> rows], day_min |-> r[1], day_max |-> r[2]] :
      rows \in RowLists(SelPool), r \in SelRanges }

SelInit ==
  /\ disk = EmptyDict
  /\ sel_in \in SelInputs
  /\ call_in = None
  /\ InitLocals

SelApply ==
  /\ sel_out = None
  /\ sel_out' = fetch_cauciones_ars_best_by_days(sel_in.data, sel_in.day_min, sel_in.day_max)
  /\ UNCHANGED <<disk, clock, nticks, monLocals, histVars, botVars, sel_in, auxVars>>

SelNew ==
  /\ sel_out # None
  /\ sel_in' \in SelInputs
  /\ sel_out' = None
  /\ UNCHANGED <<disk, clock, nticks, monLocals, histVars, botVars, auxVars>>

SelNext ==
  \/ SelApply
  \/ SelNew

SelSpec == SelInit /\ [][SelNext]_vars

(* One cycle's evaluation alone, on bounded rule lists, responses, state   *)
(* files and one instant                                                   *)

MaxRules == 2

\* a rule without the enabled field, and without capital_min
RuleNoFlag ==
  [capital_max |-> 5000, day_min |-> 1, day_max |-> 30, min_net_profit |-> 0,
   thresholds |-> (7 :> 5000 @@ 30 :> 5000)]

EvalRules == {RuleA, RuleP, RuleD, RuleN, RuleOff, RuleNoFlag}

EvalRuleLists == UNION { [1..n -> EvalRules] : n \in 0..MaxRules }

EvalDisks ==
  InitDisks \cup
  { (Key(7) :> [last_sent_ts |-> Epoch - 60, last_sent_rate |-> 5500]),
    (Key(7) :> [last_sent_ts |-> Epoch - 900, last_sent_rate |-> 5510]
       @@ Key(30) :> [last_sent_ts |-> Epoch - 60, last_sent_rate |-> 5500]) }

EvalInputs ==
  { [file |-> File(Doc(18, 365, rules)),
     response |-> [shape |-> "list", rows |-> rows],
     disk |-> d, now |-> Epoch] :
      rules \in EvalRuleLists, rows \in RowLists(GoodRows), d \in EvalDisks }

EvalInit ==
  /\ disk = EmptyDict
  /\ sel_in = [data |-> NoData, day_min |-> DayMin, day_max |-> DayMax]
  /\ call_in \in EvalInputs
  /\ InitLocals

EvalApply ==
  /\ call_out = None
  /\ call_out' = main_eval(call_in.file, call_in.response, load_state(call_in.disk),
                           call_in.now)
  /\ UNCHANGED <<disk, clock, nticks, monLocals, histVars, botVars, selVars, call_in,
                 inbox, handled>>

EvalNext == EvalApply

EvalSpec == EvalInit /\ [][EvalNext]_vars

(* The profitability calculations alone, on bounded arguments: one rule    *)
(* with a threshold of 0 for the maturity, so that the profit gate decides *)

CalcMinProfits == {0, 1, 5, 50}
CalcDays == {1, 7, 30}
CalcRates == {0, 219, 1460, 5000, 5500, 5510}
CalcBases == {360, 365}
CalcCosts == {0, 18}
CalcCapitals == {0, 100, 570, 1000, 2000}

CalcInputs ==
  { [min_profit |-> mp, days |-> d, rate |-> r, base_days |-> b, cost_rate |-> c,
     cap_min |-> lo, cap_max |-> hi] :
      mp \in CalcMinProfits, d \in CalcDays, r \in CalcRates, b \in CalcBases,
      c \in CalcCosts, lo \in CalcCapitals, hi \in CalcCapitals }

CalcRule(in) ==
  [capital_min |-> in.cap_min, capital_max |-> in.cap_max, day_min |-> DayMin,
   day_max |-> DayMax, min_net_profit |-> in.min_profit,
   thresholds |-> (in.days :> 0)]

CalcInit ==
  /\ disk = EmptyDict
  /\ sel_in = [data |-> NoData, day_min |-> DayMin, day_max |-> DayMax]
  /\ call_in \in CalcInputs
  /\ InitLocals

\* required_capital_for_profit on the arguments
CalcRequired ==
  /\ call_out = None
  /\ call_out' = [req |-> required_capital_for_profit(call_in.min_profit, call_in.days,
                            call_in.rate, call_in.base_days, call_in.cost_rate)]
  /\ UNCHANGED <<disk, clock, nticks, monLocals, histVars, botVars, selVars, call_in,
                 inbox, handled>>

\* the rule loop of main on the one rule
CalcRule1 ==
  /\ call_out # None
  /\ "lines" \notin DOMAIN call_out
  /\ call_out' =
       [req |-> call_out.req,
        lines |-> RuleLoop(<<CalcRule(call_in)>>, 1, call_in.days, call_in.rate, "?",
                           call_in.base_days, call_in.cost_rate,
                           [err |-> "none", lines |-> <<>>, best_pick |-> None]).lines]
  /\ UNCHANGED <<disk, clock, nticks, monLocals, histVars, botVars, selVars, call_in,
                 inbox, handled>>

CalcNext ==
  \/ CalcRequired
  \/ CalcRule1

CalcSpec == CalcInit /\ [][CalcNext]_vars

(* bot_commands runs one after another against the Telegram server, which  *)
(* keeps every update and returns those with update_id >= offset.  The     *)
(* environment does not fail: getUpdates and sendMessage succeed.          *)

MaxCalls == 2

\* a chat sends a message: the server stores it under the next update_id
Receive ==
  /\ Len(inbox) < MaxUpdateId
  /\ \E upd \in UpdatesWithId(Len(inbox) + 1) : inbox' = Append(inbox, upd)
  /\ UNCHANGED <<disk, clock, nticks, monLocals, histVars, botVars, selVars, call_in,
                 call_out, handled>>

\* getUpdates with params offset: r.json().get("result", [])
getUpdates(server, offset) ==
  LET Unconfirmed(u) == u.update_id >= offset IN SelectSeq(server, Unconfirmed)

\* line 283 is reached for the update: its chat is CHAT_ID and its text is not empty
IsHandled(upd) == upd.chat = "mine" /\ upd.text # ""

InboxBotStart ==
  /\ BotStart
  /\ bupdates' = getUpdates(inbox, Offset(disk))
  /\ UNCHANGED handled

\* the step of the loop with a working sendMessage: handle_command raises only
\* on the text
WorkingBotStep ==
  /\ BotStep
  /\ bpc' = "aborted" => handle_command_raises(Head(bupdates).text, TRUE)

\* the same step, recording the call of handle_command
InboxBotStep ==
  /\ WorkingBotStep
  /\ LET upd == Head(bupdates) IN
       IF IsHandled(upd)
       THEN /\ DictGet(handled, upd.update_id, 0) < MaxCalls
            /\ handled' = Put(handled, upd.update_id, DictGet(handled, upd.update_id, 0) + 1)
       ELSE UNCHANGED handled

BotInit ==
  /\ disk \in InitDisks
  /\ sel_in = [data |-> NoData, day_min |-> DayMin, day_max |-> DayMax]
  /\ call_in = None
  /\ InitLocals

BotNext ==
  \/ Receive
  \/ InboxBotStart
  \/ InboxBotStep
  \/ BotSave
  \/ BotExit

BotSpec == BotInit /\ [][BotNext]_vars

(* The same runs with a scheduler that starts bot_commands again and again *)
(* and a process that runs to its end                                      *)

LiveBotStep == WorkingBotStep /\ UNCHANGED handled

LiveNext ==
  \/ Receive
  \/ InboxBotStart
  \/ LiveBotStep
  \/ BotSave
  \/ BotExit

BotLiveSpec ==
  /\ BotInit
  /\ [][LiveNext]_vars
  /\ WF_vars(InboxBotStart)
  /\ WF_vars(LiveBotStep)
  /\ WF_vars(BotSave)
  /\ WF_vars(BotExit)

(* A monitor cycle and a bot_commands run on the same state file with      *)
(* nothing that keeps them apart: each may start and step at any time.     *)

RaceRows == { r \in GoodRows : r.daysToMaturity.v = 7 /\ r.settlementPrice.v = 5500 }
RaceResponses == { [shape |-> "list", rows |-> rows] : rows \in RowLists(RaceRows) }

RaceLoadRules == LoadRules(SeqRulesFiles)
RaceFetch == Fetch(RaceResponses)

\* the updates come from CHAT_ID and are answered
RaceBotStart ==
  /\ BotStart
  /\ \A j \in DOMAIN bupdates' : bupdates'[j].chat = "mine" /\ bupdates'[j].text = "/help"

RaceBotStep == WorkingBotStep /\ UNCHANGED handled

RaceNext ==
  \/ Tick
  \/ RaceLoadRules
  \/ RaceFetch
  \/ Select
  \/ LoadState
  \/ MonitorEvalDay
  \/ Send
  \/ NoSend
  \/ Save
  \/ Exit
  \/ RaceBotStart
  \/ RaceBotStep
  \/ BotSave
  \/ BotExit

RaceSpec == Init /\ [][RaceNext]_vars

----------------------------------------------------------------------------
(* Properties *)

CooldownWindow == COOLDOWN_MINUTES * 60

\* the entry is a stored (lastSentTimestamp, lastSentRate) pair
IsStored(entry) == "last_sent_ts" \in DOMAIN entry /\ "last_sent_rate" \in DOMAIN entry

\* C1: for a key with a stored entry (lastSentTimestamp, lastSentRate) and a
\* candidate rate evaluated at time now, the gatekeeper notifies if and only if
\* now - lastSentTimestamp >= cooldownWindow or rate >= lastSentRate +
\* minImprovement, and suppresses exactly when both are false.
C1_ShouldNotifyDecision ==
  \A i \in DOMAIN decisions :
    LET e == decisions[i] IN
    IsStored(e.entry) =>
      (e.notify <=> (\/ e.now - e.entry.last_sent_ts >= CooldownWindow
                     \/ e.rate >= e.entry.last_sent_rate + MIN_IMPROVEMENT))

\* one cycle suppresses a key (both conditions false) and notifies another
\* exactly at the cooldown boundary without improvement
C1_Witness ==
  \E i, j \in DOMAIN decisions :
    LET e == decisions[i]
        f == decisions[j]
    IN /\ IsStored(e.entry) /\ e.notify
       /\ e.now - e.entry.last_sent_ts = CooldownWindow
       /\ e.rate < e.entry.last_sent_rate + MIN_IMPROVEMENT
       /\ IsStored(f.entry) /\ ~f.notify
       /\ f.now - f.entry.last_sent_ts < CooldownWindow
       /\ f.rate < f.entry.last_sent_rate + MIN_IMPROVEMENT

\* C2: a key with no entry, or with a legacy bare number as its entry, is read
\* with lastSentTimestamp = 0 and always notifies, whatever the candidate rate,
\* also when the rate is lower than the legacy stored rate.
C2_NoEntryOrLegacyNotifies ==
  \A i \in DOMAIN decisions :
    LET e == decisions[i] IN
    (e.entry = EmptyDict \/ IsNumber(e.entry)) => e.notify

\* a legacy entry was consulted with a rate below the legacy rate, and a key
\* without entry in the same cycle
C2_Witness ==
  \E i, j \in DOMAIN decisions :
    /\ IsNumber(decisions[i].entry)
    /\ decisions[i].rate < decisions[i].entry.num
    /\ decisions[i].notify
    /\ decisions[j].entry = EmptyDict
    /\ decisions[j].notify

Entry(ts, rate) == [last_sent_ts |-> ts, last_sent_rate |-> rate]

\* C3: improvement is measured against the last sent rate.  After a delivered
\* notification for key k at rate r0 at time t0, a cycle that evaluates k before
\* t0 + cooldownWindow with a rate below r0 + minImprovement is suppressed and
\* leaves k's entry equal to (t0, r0); with a rate >= r0 + minImprovement it
\* notifies, however small the rise since the previous observation.
C3_ImprovementAgainstLastSent ==
  \A i \in DOMAIN decisions :
    LET e == decisions[i]
        k == Key(e.days)
    IN (e.last # None /\ e.now < e.last.last_sent_ts + CooldownWindow) =>
         IF e.rate < e.last.last_sent_rate + MIN_IMPROVEMENT
         THEN /\ ~e.notify
              /\ k \in DOMAIN state /\ state[k] = e.last
              /\ k \in DOMAIN disk /\ disk[k] = e.last
         ELSE e.notify

\* inside the cooldown a key sent at r0 is notified again at a rate r0 +
\* minImprovement or more, after a suppressed observation in between: neither
\* rise reaches minImprovement
C3_Witness ==
  \E i \in DOMAIN decisions :
    LET e == decisions[i] IN
    /\ e.last # None
    /\ e.notify
    /\ e.now < e.last.last_sent_ts + CooldownWindow
    /\ e.rate >= e.last.last_sent_rate + MIN_IMPROVEMENT
    /\ e.prev > e.last.last_sent_rate
    /\ e.prev - e.last.last_sent_rate < MIN_IMPROVEMENT
    /\ e.rate - e.prev < MIN_IMPROVEMENT

\* C4: on every notify for key k the entry becomes exactly (now, rate); over
\* monitor cycles and bot_commands runs that do not overlap no key is ever
\* removed from the state file, and between runs each key holds the rate and
\* the time of its most recent delivered notification.
C4_EntriesOnlyAccumulate ==
  [][ /\ DOMAIN disk \subseteq DOMAIN disk'
      /\ (Len(decisions') = Len(decisions) + 1 /\ decisions'[Len(decisions')].notify) =>
           LET e == decisions'[Len(decisions')] IN
           /\ Key(e.days) \in DOMAIN state'
           /\ state'[Key(e.days)] = Entry(clock', e.rate)
      /\ (pc' = "idle" /\ bpc' = "idle") =>
           \A k \in DOMAIN lastSent' : k \in DOMAIN disk' /\ disk'[k] = lastSent'[k]
    ]_vars

\* between runs the file holds the bot's offset and two keys notified in
\* different cycles, the older one kept through the later cycle
C4_Witness ==
  /\ pc = "idle" /\ bpc = "idle"
  /\ "_telegram_offset" \in DOMAIN disk
  /\ Key(7) \in DOMAIN lastSent /\ Key(30) \in DOMAIN lastSent
  /\ disk[Key(7)] = lastSent[Key(7)] /\ disk[Key(30)] = lastSent[Key(30)]
  /\ disk[Key(7)].last_sent_ts < disk[Key(30)].last_sent_ts

Notified == \E i \in DOMAIN decisions : decisions[i].notify

\* C5: a monitor cycle writes the state file if and only if a maturity was
\* notified and the message was delivered; every other cycle leaves the file as
\* it was, and a key is persisted only with its section in a delivered message.
C5_StateWrittenOnlyAfterDelivery ==
  /\ "save_state" \in io => (Notified /\ sent # None)
  /\ pc = "done" => ((Notified /\ sent # None) => "save_state" \in io)
  /\ "save_state" \notin io => disk = disk0
  /\ \A k \in DOMAIN disk :
       (k \notin DOMAIN disk0 \/ disk[k] # disk0[k]) =>
         /\ sent # None
         /\ \E j \in DOMAIN sent.sections : Key(sent.sections[j].days) = k

\* a cycle notified a maturity in memory, the delivery failed, and the file is
\* as it was
C5_Witness ==
  /\ pc = "aborted" /\ err = "DeliveryError"
  /\ Notified
  /\ state # disk
  /\ disk = disk0
  /\ "save_state" \notin io

\* C6: when the rule file is missing or malformed (load_rules raises) the cycle
\* aborts before any network or state I/O: no fetch_cauciones, load_state,
\* send_telegram or save_state.
C6_ConfigErrorBeforeIO ==
  cfg.err # "none" =>
    /\ pc = "aborted"
    /\ io = {}
    /\ sent = None
    /\ disk = disk0

\* a cycle aborted on a rule file that parses but has an enabled rule without
\* capital_min
C6_Witness ==
  /\ cfg.err = "KeyError"
  /\ pc = "aborted"
  /\ io = {}

\* C7: an individual malformed row never makes the cycle fail: on a list
\* response the selection raises nothing.
C7_MalformedRowNeverFails ==
  data.shape = "list" => err \notin {"ValueError", "TypeError", "AttributeError"}

\* C8: a response that is not a list ends the cycle in a fatal error: the
\* cycle does not complete normally, sends no message and persists no state.
C8_NonListIsFatal ==
  data.shape # "list" =>
    /\ pc # "done"
    /\ sent = None
    /\ disk = disk0

IsCandidate(x, d) ==
  /\ DictGet(x, "denominationCcy", "") = "ARS"
  /\ "daysToMaturity" \in DOMAIN x
  /\ x.daysToMaturity.t = "num"
  /\ x.daysToMaturity.v = d

RateOf(x) == IF "settlementPrice" \in DOMAIN x THEN x.settlementPrice.v ELSE 0

\* C9: the best-by-days map has an entry for maturity d if and only if some
\* target-currency row has a non-null daysToMaturity equal to d within
\* [dayMin, dayMax]; the entry is the first row with the maximum rate among those
\* rows; the maturities are iterated in ascending order.
C9_QuoteSelection ==
  (sel_out # None /\ sel_out.err = "none") =>
    LET rows == sel_in.data.rows
        best == sel_out.best
        Cand(d) == { i \in DOMAIN rows : IsCandidate(rows[i], d) }
        days == { rows[i].daysToMaturity.v :
                    i \in { j \in DOMAIN rows : "daysToMaturity" \in DOMAIN rows[j] } }
        order == SortedDays(DOMAIN best)
    IN /\ \A d \in DOMAIN best : sel_in.day_min <= d /\ d <= sel_in.day_max
       /\ \A d \in days \cup DOMAIN best :
            d \in DOMAIN best <=>
              (Cand(d) # {} /\ sel_in.day_min <= d /\ d <= sel_in.day_max)
       /\ \A d \in DOMAIN best :
            \E i \in Cand(d) :
              /\ best[d] = rows[i]
              /\ \A j \in Cand(d) :
                   /\ RateOf(rows[j]) <= RateOf(rows[i])
                   /\ RateOf(rows[j]) = RateOf(rows[i]) => i <= j
       /\ { order[a] : a \in DOMAIN order } = DOMAIN best
       /\ \A a, b \in DOMAIN order : a < b => order[a] < order[b]

\* two different rows of one maturity share the maximum rate and the first one
\* is kept
C9_Witness ==
  /\ sel_out # None /\ sel_out.err = "none"
  /\ Len(sel_in.data.rows) = 2
  /\ sel_in.data.rows[1] # sel_in.data.rows[2]
  /\ IsCandidate(sel_in.data.rows[1], 7) /\ IsCandidate(sel_in.data.rows[2], 7)
  /\ RateOf(sel_in.data.rows[1]) = RateOf(sel_in.data.rows[2])
  /\ 7 \in DOMAIN sel_out.best
  /\ sel_out.best[7] = sel_in.data.rows[1]

\* the maturities the loop of the current cycle has gone through
Processed ==
  IF "load_state" \in io
  THEN DOMAIN best_by_days \ { pending[a] : a \in DOMAIN pending }
  ELSE {}

GatesPass(R, d, r) ==
  /\ R.day_min <= d /\ d <= R.day_max
  /\ d \in DOMAIN R.thresholds
  /\ r >= R.thresholds[d]

\* net profit at capitalMax >= minNetProfit, over the denominator 10000 * base_days
NetAtCeilingClears(R, d, r) ==
  R.capital_max * (r * d - cfg.cost_rate * cfg.base_days)
    >= R.min_net_profit * 10000 * cfg.base_days

\* C10: for a maturity d with best rate r and an enabled rule R a matched result
\* is produced if and only if R.dayMin <= d <= R.dayMax, R.thresholds has an
\* entry for exactly d, r >= that threshold and the net profit at R.capitalMax is
\* >= R.minNetProfit.
C10_RuleMatching ==
  \A d \in Processed : \A i \in DOMAIN cfg.rules :
    LET R == cfg.rules[i]
        r == RateOf(best_by_days[d])
    IN <<d, i>> \in matched <=> (GatesPass(R, d, r) /\ NetAtCeilingClears(R, d, r))

\* for one maturity a rule passes range and threshold and is skipped because
\* its net profit at capitalMax is below minNetProfit, while another rule matches
C10_Witness ==
  \E d \in Processed : \E i, j \in DOMAIN cfg.rules :
    /\ GatesPass(cfg.rules[i], d, RateOf(best_by_days[d]))
    /\ ~NetAtCeilingClears(cfg.rules[i], d, RateOf(best_by_days[d]))
    /\ <<d, i>> \notin matched
    /\ <<d, j>> \in matched
    /\ cfg.rules[j].min_net_profit > 0

InsertAt(s, p, x) == SubSeq(s, 1, p) \o <<x>> \o SubSeq(s, p + 1, Len(s))
RemoveAt(s, p) == SubSeq(s, 1, p - 1) \o SubSeq(s, p + 1, Len(s))

IsDisabled(r) == "enabled" \notin DOMAIN r \/ r.enabled = FALSE

\* the evaluation of the current input with another list of rules in the file
EvalWith(capital_rules) ==
  main_eval([call_in.file EXCEPT !.doc.capital_rules = capital_rules],
            call_in.response, call_in.disk, call_in.now)

\* C11: adding a rule with enabled = false, or with no enabled field, at any
\* place of the configuration, or removing one, changes nothing of a cycle: the
\* matched results, the maturities notified, the best pick and the resulting
\* state are the same.
C11_DisabledRuleIndependence ==
  call_out # None =>
    LET rules == call_in.file.doc.capital_rules IN
    /\ \A p \in 0..Len(rules) : \A D \in {RuleOff, RuleNoFlag} :
         EvalWith(InsertAt(rules, p, D)) = call_out
    /\ \A p \in DOMAIN rules :
         IsDisabled(rules[p]) => EvalWith(RemoveAt(rules, p)) = call_out

\* a cycle that matched and notified with a disabled rule in its file, which
\* would have matched and taken the best pick had it been enabled
C11_Witness ==
  /\ call_out # None
  /\ call_out.err = "none"
  /\ call_out.notified # {}
  /\ call_out.best_pick # None
  /\ \E p \in DOMAIN call_in.file.doc.capital_rules :
       LET D == call_in.file.doc.capital_rules[p] IN
       /\ IsDisabled(D)
       /\ \E d \in call_out.notified :
            /\ d \in DOMAIN D.thresholds
            /\ D.capital_max > call_out.best_pick.cap

\* the best rate of maturity d in the current input
EvalRate(d) ==
  Price(fetch_cauciones_ars_best_by_days(call_in.response, DayMin, DayMax).best[d])

\* the (maturity, rule) pairs of a result, each rule by its contents
MatchedRules(r) == { <<m[1], r.rules[m[2]]>> : m \in r.matched }

Permuted(s, f) == [i \in DOMAIN s |-> s[f[i]]]

\* C12: for the same quotes, time and prior state every permutation of the rules
\* yields the same set of matched (maturity, rule) pairs, the same set of
\* notified maturities and the same resulting state.
C12_RuleOrderIndependence ==
  call_out # None =>
    LET rules == call_in.file.doc.capital_rules IN
    \A f \in Permutations(DOMAIN rules) :
      LET r == EvalWith(Permuted(rules, f)) IN
      /\ r.err = call_out.err
      /\ MatchedRules(r) = MatchedRules(call_out)
      /\ r.consulted = call_out.consulted
      /\ r.notified = call_out.notified
      /\ r.state = call_out.state

\* two different enabled rules of which the first fails the profit gate and the
\* second matches a maturity that is notified
C12_Witness ==
  /\ call_out # None
  /\ call_out.err = "none"
  /\ Len(call_out.rules) >= 2
  /\ call_out.rules[1] # call_out.rules[2]
  /\ \E d \in call_out.notified :
       /\ <<d, 2>> \in call_out.matched
       /\ <<d, 1>> \notin call_out.matched
       /\ PassesThreshold(call_out.rules[1], d, EvalRate(d))
       /\ call_out.state # call_in.disk

\* net profit at capitalMax of the matched result m = (maturity, rule index),
\* over the denominator 10000 * base_days
NetAtCeiling(m) ==
  call_out.rules[m[2]].capital_max
    * (EvalRate(m[1]) * m[1]
         - call_in.file.doc.cost_rate * call_in.file.doc.base_days)

\* m comes before n iterating maturities ascending and rules in configured order
Before(m, n) == m[1] < n[1] \/ (m[1] = n[1] /\ m[2] <= n[2])

\* C13: at the end of the evaluation the best pick is the matched result with
\* the highest net profit at capitalMax over all maturities and rules, and among
\* several with that value the first one in iteration order (maturities
\* ascending, rules in configured order); there is none iff nothing matched.
C13_BestPick ==
  (call_out # None /\ call_out.err = "none") =>
    /\ call_out.best_pick = None <=> call_out.matched = {}
    /\ call_out.matched # {} =>
         \E m \in call_out.matched :
           /\ \A n \in call_out.matched :
                /\ NetAtCeiling(n) <= NetAtCeiling(m)
                /\ NetAtCeiling(n) = NetAtCeiling(m) => Before(m, n)
           /\ call_out.best_pick.days = m[1]
           /\ call_out.best_pick.rate = EvalRate(m[1])
           /\ call_out.best_pick.net = NetAtCeiling(m)
           /\ call_out.best_pick.cap = call_out.rules[m[2]].capital_max
           /\ call_out.best_pick.cap_range =
                <<call_out.rules[m[2]].capital_min, call_out.rules[m[2]].capital_max>>
           /\ call_out.best_pick.min_profit = call_out.rules[m[2]].min_net_profit

\* two different rules share the highest net at capitalMax on one maturity and
\* the pick is the first rule's
C13_Witness ==
  /\ call_out # None /\ call_out.err = "none"
  /\ \E m, n \in call_out.matched :
       /\ m[1] = n[1] /\ m[2] < n[2]
       /\ call_out.rules[m[2]] # call_out.rules[n[2]]
       /\ NetAtCeiling(m) = NetAtCeiling(n)
       /\ call_out.best_pick.net = NetAtCeiling(m)
       /\ call_out.best_pick.min_profit = call_out.rules[m[2]].min_net_profit
       /\ call_out.best_pick.min_profit # call_out.rules[n[2]].min_net_profit

\* the per-unit net rate of the current arguments, times 10000 * base_days
PerUnit == call_in.rate * call_in.days - call_in.cost_rate * call_in.base_days

\* C14: required_capital_for_profit reports unattainable (None) exactly when the
\* per-unit net rate is <= 0; otherwise the capital c it returns, when the
\* division is exact, satisfies net_profit(c, ...) = minProfit.
C14_RequiredCapital ==
  call_out # None =>
    /\ call_out.req = None <=> PerUnit <= 0
    /\ call_out.req # None =>
         /\ call_out.req.n = call_in.min_profit * 10000 * call_in.base_days
         /\ call_out.req.d = PerUnit
         /\ call_out.req.n % call_out.req.d = 0 =>
              net_profit(call_out.req.n \div call_out.req.d, call_in.days, call_in.rate,
                         call_in.base_days, call_in.cost_rate)
                = call_in.min_profit * 10000 * call_in.base_days

\* a positive target with a cost, reached exactly by a whole capital
C14_Witness ==
  /\ call_out # None
  /\ call_out.req # None
  /\ call_in.min_profit > 0
  /\ call_in.cost_rate > 0
  /\ call_out.req.n % call_out.req.d = 0
  /\ call_out.req.n \div call_out.req.d > 1

\* the arguments are a rule with 0 <= capitalMin <= capitalMax and
\* minNetProfit > 0, and the rule loop has produced its line
MatchedWithTarget ==
  /\ call_out # None
  /\ "lines" \in DOMAIN call_out
  /\ call_out.lines # <<>>
  /\ 0 <= call_in.cap_min /\ call_in.cap_min <= call_in.cap_max
  /\ call_in.min_profit > 0

\* C18: for a rule with 0 <= capitalMin <= capitalMax and minNetProfit > 0 that
\* passes all gates the required capital is attainable: it is not None, it is
\* <= capitalMax, the clamped 'from' capital lies in [capitalMin, capitalMax] and
\* the line never falls back to 'N/A'; when the floor capital does not clear the
\* bar the 'from' capital is strictly greater than capitalMin.
C18_RequiredCapitalAttainable ==
  MatchedWithTarget =>
    LET line == call_out.lines[1]
        lo == Frac(call_in.cap_min)
        hi == Frac(call_in.cap_max)
        target == call_in.min_profit * 10000 * call_in.base_days
    IN /\ call_out.req # None
       /\ FracLE(call_out.req, hi)
       /\ line.desde # None
       /\ FracLE(lo, line.desde) /\ FracLE(line.desde, hi)
       /\ line.extra # "N/A"
       /\ call_in.cap_min * PerUnit < target =>
            /\ line.extra = "desde"
            /\ ~FracLE(line.desde, lo)
       /\ call_in.cap_min * PerUnit >= target => line.extra = "ok"

\* the floor capital misses the target and the required capital lies strictly
\* inside the range; the rule has a cost
C18_Witness ==
  /\ MatchedWithTarget
  /\ call_in.cost_rate > 0
  /\ call_out.lines[1].extra = "desde"
  /\ ~FracLE(call_out.lines[1].desde, Frac(call_in.cap_min))
  /\ ~FracLE(Frac(call_in.cap_max), call_out.lines[1].desde)

\* C15: in a monitor cycle the gatekeeper is consulted for maturity d exactly
\* when d has a matched rule; the in-memory entry of ARS_d is set and a section
\* for d added exactly when, moreover, the gatekeeper notifies; otherwise state
\* and sections stay as they are; every other key of the state is left
\* unchanged and the file is not touched.
C15_FrameOfEvaluation ==
  [][ (pc = "eval" /\ pending # <<>> /\ pending' = Tail(pending)) =>
        LET d == Head(pending)
            k == Key(d)
            hasMatch == \E m \in matched' : m[1] = d
            asked == Len(decisions') = Len(decisions) + 1
            notify == asked /\ decisions'[Len(decisions')].notify
            added == Len(day_sections') = Len(day_sections) + 1
        IN /\ ~asked => decisions' = decisions
           /\ asked <=> hasMatch
           /\ asked => decisions'[Len(decisions')].days = d
           /\ added <=> notify
           /\ added => day_sections'[Len(day_sections')].days = d
           /\ notify => /\ k \in DOMAIN state'
                        /\ state'[k] = Entry(clock', RateOf(best_by_days[d]))
           /\ ~notify => state' = state /\ day_sections' = day_sections
           /\ DOMAIN state' \subseteq DOMAIN state \cup {k}
           /\ \A j \in DOMAIN state \ {k} : j \in DOMAIN state' /\ state'[j] = state[j]
           /\ disk' = disk
    ]_vars

\* a cycle went through a maturity without matched rule, for which the
\* gatekeeper was not consulted and no entry exists, and through a maturity that
\* was notified while the state held the entry of another key
C15_Witness ==
  /\ pc = "eval" /\ pending = <<>>
  /\ \E d \in Processed :
       /\ \A m \in matched : m[1] # d
       /\ \A i \in DOMAIN decisions : decisions[i].days # d
       /\ Key(d) \in DOMAIN state /\ state[Key(d)] = disk0[Key(d)]
  /\ \E i \in DOMAIN decisions :
       /\ decisions[i].notify
       /\ state[Key(decisions[i].days)] = Entry(decisions[i].ts, decisions[i].rate)

\* the delivered message has a section for maturity d
HasSection(d) == \E j \in DOMAIN sent.sections : sent.sections[j].days = d

\* C17 as stated: the best-opportunity block of an emitted message refers to a
\* maturity that has a section in that same message.
C17_BestPickHasSection ==
  (sent # None /\ sent.best # None) => HasSection(sent.best.days)

\* C17 amended: an emitted message always carries a best-opportunity block, and
\* the block refers to a maturity with a matched result in this cycle; that
\* maturity has a section in the message exactly when the gatekeeper notified it.
C17_BestPickFromMatched ==
  sent # None =>
    /\ sent.best # None
    /\ \E m \in matched : m[1] = sent.best.days
    /\ HasSection(sent.best.days) <=>
         \E i \in DOMAIN decisions :
           decisions[i].days = sent.best.days /\ decisions[i].notify

\* a delivered message whose best pick is a maturity that the gatekeeper
\* suppressed in this cycle
C17_Witness ==
  /\ sent # None
  /\ sent.best # None
  /\ ~HasSection(sent.best.days)
  /\ \E i \in DOMAIN decisions :
       decisions[i].days = sent.best.days /\ ~decisions[i].notify

\* C19: across bot_commands runs each Telegram update is passed to
\* handle_command at most once.
C19_HandledAtMostOnce ==
  \A id \in DOMAIN handled : handled[id] <= 1

\* C20: if bot_commands is run repeatedly, the persisted _telegram_offset
\* eventually exceeds the id of every received update.
C20_OffsetProgress ==
  \A id \in 1..MaxUpdateId : (Len(inbox) >= id) ~> (Offset(disk) > id)

\* C16: nothing keeps overlapping runs apart, and each run reads the state
\* file once and later writes its own copy over it: a load takes the file as it
\* is at that moment, and the file changes only by a save that replaces it
\* whole with the saving run's copy, whatever another run has written since.
C16_UnlockedReadModifyWrite ==
  [][ /\ (pc = "load_state" /\ pc' = "eval") => state' = disk
      /\ (bpc = "idle" /\ bpc' = "loop") => bstate' = disk
      /\ disk' # disk =>
           \/ pc = "save" /\ pc' = "done" /\ changed /\ disk' = state
           \/ bpc = "loop" /\ bpc' = "done" /\ bchanged /\ disk' = bstate
    ]_vars

\* an entry persisted by a monitor cycle was lost to the save of a bot_commands
\* run that had loaded the file before: the next cycle finds no entry and
\* notifies the maturity again inside its cooldown without the minimum
\* improvement
C16_Witness ==
  \E i \in DOMAIN decisions :
    LET e == decisions[i] IN
    /\ e.last # None
    /\ e.entry = EmptyDict
    /\ "_telegram_offset" \in DOMAIN state
    /\ e.notify
    /\ e.now < e.last.last_sent_ts + CooldownWindow
    /\ e.rate < e.last.last_sent_rate + MIN_IMPROVEMENT

====
